---- MODULE Spec2Model ----
(***************************************************************************)
(* Model of multi_tool_agent/agent.py: the three tool functions            *)
(* get_weather, get_forcast and get_current_time, the environment they     *)
(* read (WEATHERAPI_KEY) and the upstream HTTP API they call.              *)
(*                                                                         *)
(* Python values are tagged records, strings are sequences of characters   *)
(* (string literals of the source are kept as one token each), and every   *)
(* invocation has a frame holding its arguments, locals and position.      *)
(***************************************************************************)
EXTENDS Integers, Sequences, FiniteSets, TLC

VARIABLES apiKey,        \* os.environ["WEATHERAPI_KEY"] after load_dotenv()
          jsonErrCaught, \* installed requests: is the error of response.json() a RequestException
          frame          \* one frame per thread of the agent runtime

vars == <<apiKey, jsonErrCaught, frame>>

----------------------------------------------------------------------------
(* Bounds of the model. *)

\* threads of the agent runtime that may be inside a tool at the same time
MaxThreads == 2
\* float temperatures 0.000 .. MaxMilli/1000 (both signs) are all enumerated
MaxMilli == 300
\* get_forcast is called with days in 1..MaxDays or with the default
MaxDays == 2

Threads == 1..MaxThreads
\* the thread used when the runtime invokes the tools serially
Main == CHOOSE i \in Threads : \A j \in Threads : i <= j

----------------------------------------------------------------------------
(* Python values. *)

PyNone == [tag |-> "None"]
PyStr(s) == [tag |-> "str", v |-> s]
PyInt(n) == [tag |-> "int", v |-> n]
\* a float: cls is "finite", "inf" or "nan"; a finite one is the double nearest
\* to the decimal literal (-1)^neg * milli / 1000
PyFloat(cls, neg, milli) == [tag |-> "float", cls |-> cls, neg |-> neg, milli |-> milli]
PyList == [tag |-> "list"]
PyDict(f) == [tag |-> "dict", v |-> f]
EmptyDict == [tag |-> "dict", v |-> <<>>]

\* the outcome of a call: a returned value or a raised exception
Returned(v) == [kind |-> "return", value |-> v, exc |-> "-"]
Raised(e) == [kind |-> "raise", value |-> PyNone, exc |-> e]

\* exceptions that `except requests.exceptions.RequestException` catches
RequestExceptions == {"ConnectionError", "Timeout", "HTTPError", "requests.JSONDecodeError"}

\* Python truthiness of an optional string (`not api_key`)
Truthy(x) == x.tag = "str" /\ Len(x.v) > 0

----------------------------------------------------------------------------
(* Strings. *)

UpperCase == <<"A","B","C","D","E","F","G","H","I","J","K","L","M",
               "N","O","P","Q","R","S","T","U","V","W","X","Y","Z">>
LowerCase == <<"a","b","c","d","e","f","g","h","i","j","k","l","m",
               "n","o","p","q","r","s","t","u","v","w","x","y","z">>

\* U+212A KELVIN SIGN, one character, whose lower case is "k"
KelvinSign == "U+212A"

LowerChar(c) ==
    IF \E k \in 1..26 : UpperCase[k] = c
    THEN LowerCase[CHOOSE k \in 1..26 : UpperCase[k] = c]
    ELSE IF c = KelvinSign THEN "k" ELSE c

\* a comparison that forgets lower()
StrLowerIdentity(s) == s
\* str.lower()
StrLower(s) == [k \in 1..Len(s) |-> LowerChar(s[k])]

Digit(d) == <<"0","1","2","3","4","5","6","7","8","9">>[d + 1]

RECURSIVE NatToStr(_)
NatToStr(n) == IF n < 10 THEN <<Digit(n)>> ELSE NatToStr(n \div 10) \o <<Digit(n % 10)>>

----------------------------------------------------------------------------
(* f"{x:.1f}": Python converts the double x to the nearest decimal with    *)
(* one fractional digit (exact ties go to the even digit).  The double     *)
(* nearest to the literal milli/1000 is below or above it, or equal to it, *)
(* which decides the literals that end in 50.                              *)

RECURSIVE BitLen(_)
BitLen(n) == IF n = 0 THEN 0 ELSE 1 + BitLen(n \div 2)

\* the remainder (in 1/1000 of the last bit) left after k more binary digits
\* of the fraction r/1000
RECURSIVE ShiftRem(_, _)
ShiftRem(r, k) == IF k = 0 \/ r = 0 THEN r ELSE ShiftRem((2 * r) % 1000, k - 1)

\* a fraction below 1: skip the leading zero bits, then 53 significant bits
RECURSIVE FracRem(_)
FracRem(r) == IF 2 * r >= 1000 THEN ShiftRem(r, 53) ELSE FracRem(2 * r)

\* what the 53-bit mantissa leaves out of milli/1000
MantissaRem(milli) ==
    LET whole == milli \div 1000
        r == milli % 1000
    IN  IF r = 0 THEN 0
        ELSE IF whole = 0 THEN FracRem(r)
        ELSE ShiftRem(r, 53 - BitLen(whole))

\* round-to-nearest of the mantissa: -1 the double is below the literal,
\* 0 it is the literal, 1 it is above (a remainder of exactly half a bit
\* cannot occur: such a literal is a multiple of 1/8 and leaves 0)
DoubleError(milli) ==
    LET rem == MantissaRem(milli)
    IN  IF rem = 0 THEN 0 ELSE IF rem < 500 THEN -1 ELSE 1

\* the number of tenths that '.1f' prints for the double nearest milli/1000
RoundTenths(milli) ==
    LET q == milli \div 100
        r == milli % 100
    IN  IF r < 50 THEN q
        ELSE IF r > 50 THEN q + 1
        ELSE CASE DoubleError(milli) = -1 -> q
               [] DoubleError(milli) = 1 -> q + 1
               [] OTHER -> IF q % 2 = 0 THEN q ELSE q + 1

Sign(neg) == IF neg THEN <<"-">> ELSE <<>>

\* str(x) in place of the '.1f' format: every digit of the literal
FormatNoRounding(x) ==
    CASE x.tag = "int" -> Returned(PyStr(Sign(x.v < 0) \o NatToStr(IF x.v < 0 THEN -x.v ELSE x.v)))
      [] x.tag = "float" /\ x.cls = "finite" ->
            Returned(PyStr(Sign(x.neg) \o NatToStr(x.milli \div 1000) \o <<".">>
                           \o <<Digit((x.milli \div 100) % 10), Digit((x.milli \div 10) % 10),
                                Digit(x.milli % 10)>>))
      [] x.tag = "float" /\ x.cls = "inf" -> Returned(PyStr(Sign(x.neg) \o <<"i","n","f">>))
      [] x.tag = "float" /\ x.cls = "nan" -> Returned(PyStr(<<"n","a","n">>))
      [] x.tag = "str" -> Raised("ValueError")
      [] OTHER -> Raised("TypeError")

\* format(x, ".1f"): a returned string or a raised exception
Format1f(x) ==
    CASE x.tag = "int" ->
            Returned(PyStr(Sign(x.v < 0) \o NatToStr(IF x.v < 0 THEN -x.v ELSE x.v) \o <<".","0">>))
      [] x.tag = "float" /\ x.cls = "finite" ->
            LET t == RoundTenths(x.milli)
            IN  Returned(PyStr(Sign(x.neg) \o NatToStr(t \div 10) \o <<".", Digit(t % 10)>>))
      [] x.tag = "float" /\ x.cls = "inf" -> Returned(PyStr(Sign(x.neg) \o <<"i","n","f">>))
      [] x.tag = "float" /\ x.cls = "nan" -> Returned(PyStr(<<"n","a","n">>))
      [] x.tag = "str" -> Raised("ValueError")
      [] OTHER -> Raised("TypeError")

----------------------------------------------------------------------------
(* Result envelopes and message texts. *)

Text(lit) == PyStr(<<lit>>)

\* {"status": "error", "error_message": "WeatherAPI key not configured"}
KeyNotConfigured ==
    PyDict([status |-> Text("error"), error_message |-> Text("WeatherAPI key not configured")])

\* f"Weather information for '{city}' is not available: {str(e)}"
NotAvailableMessage(city, desc) ==
    <<"Weather information for '">> \o city \o <<"' is not available: ">> \o desc

NotAvailable(city, desc) ==
    PyDict([status |-> Text("error"), error_message |-> PyStr(NotAvailableMessage(city, desc))])

\* f"Sorry, I don't have timezone information for {city}."
NoTimezoneMessage(city) == <<"Sorry, I don't have timezone information for ">> \o city \o <<".">>

\* f"The current time in {city} is {now.strftime('%Y-%m-%d %H:%M:%S %Z%z')}"
TimeReport(city, stamp) == <<"The current time in ">> \o city \o <<" is ">> \o stamp

\* the literal compared with city.lower()
NewYork == <<"n","e","w"," ","y","o","r","k">>

----------------------------------------------------------------------------
(* The upstream HTTP API as requests sees it. *)

\* a body that is not JSON
Malformed == [tag |-> "malformed"]

\* what one requests.get ends in: a network-level failure, or a response
\* with a status code and a body
NetworkFailure(e) == [net |-> e, code |-> 0, body |-> Malformed]
Response(code, body) == [net |-> "ok", code |-> code, body |-> body]

\* str(e) of the exception e that the call on `up` raised
ExcText(e, up) ==
    CASE e = "HTTPError" -> <<"HTTPError: ">> \o NatToStr(up.code) \o <<" for url">>
      [] e = "requests.JSONDecodeError" -> <<"Expecting value: line 1 column 1 (char 0)">>
      [] OTHER -> <<e>>

\* a function that leaves out raise_for_status()
RaiseForStatusNever(up) == FALSE
\* response.raise_for_status(): HTTPError for 4xx and 5xx, nothing otherwise
RaiseForStatus(up) == 400 <= up.code /\ up.code < 600

\* response.json(): the decoded body, or the decoding error of the installed
\* requests (a RequestException since 2.27, a plain ValueError before)
ResponseJson(up, caught) ==
    IF up.body = Malformed
    THEN Raised(IF caught THEN "requests.JSONDecodeError" ELSE "ValueError")
    ELSE Returned(up.body)

\* d[k] on a decoded value
Subscript(d, k) ==
    IF d.tag = "dict"
    THEN IF k \in DOMAIN d.v THEN Returned(d.v[k]) ELSE Raised("KeyError")
    ELSE Raised("TypeError")

\* s.lower() on a decoded value
Lower(s) == IF s.tag = "str" THEN Returned(PyStr(StrLower(s.v))) ELSE Raised("AttributeError")

----------------------------------------------------------------------------
(* The bodies of the three functions. *)

\* an envelope that takes city_name from location.name of the answer
WeatherEnvelopeUpstreamName(city, data, condition, temp_c, temp_f) ==
    LET name == Subscript(data, "location")
    IN  PyDict([status |-> Text("success"), condition |-> condition,
                temperature_c |-> temp_c, temperature_f |-> temp_f,
                city_name |-> IF name.kind = "return" THEN Subscript(name.value, "name").value
                              ELSE PyStr(city)])
\* lines 41-46: the success envelope of get_weather
WeatherEnvelope(city, data, condition, temp_c, temp_f) ==
    PyDict([status |-> Text("success"), condition |-> condition,
            temperature_c |-> temp_c, temperature_f |-> temp_f,
            city_name |-> PyStr(city)])

\* lines 34-51: what the try block of get_weather does with a response
WeatherTry(city, up, caught) ==
    IF RaiseForStatus(up) THEN Raised("HTTPError") ELSE
    LET data == ResponseJson(up, caught) IN
    IF data.kind = "raise" THEN data ELSE
    LET current == Subscript(data.value, "current") IN
    IF current.kind = "raise" THEN current ELSE
    LET temp_c == Subscript(current.value, "temp_c") IN
    IF temp_c.kind = "raise" THEN temp_c ELSE
    LET temp_f == Subscript(current.value, "temp_f") IN
    IF temp_f.kind = "raise" THEN temp_f ELSE
    LET cond == Subscript(current.value, "condition") IN
    IF cond.kind = "raise" THEN cond ELSE
    LET condition == Subscript(cond.value, "text") IN
    IF condition.kind = "raise" THEN condition ELSE
    LET lowered == Lower(condition.value) IN
    IF lowered.kind = "raise" THEN lowered ELSE
    LET c == Format1f(temp_c.value) IN
    IF c.kind = "raise" THEN c ELSE
    LET f == Format1f(temp_f.value) IN
    IF f.kind = "raise" THEN f ELSE
    Returned(WeatherEnvelope(city, data.value, lowered.value, c.value, f.value))

\* a get_forcast that wraps the body in a success envelope
ForcastTryEnveloped(city, up, caught) ==
    IF RaiseForStatus(up) THEN Raised("HTTPError") ELSE
    LET data == ResponseJson(up, caught) IN
    IF data.kind = "raise" THEN data
    ELSE Returned(PyDict([status |-> Text("success"), forecast |-> data.value]))
\* lines 83-86: what the try block of get_forcast does with a response
ForcastTry(city, up, caught) ==
    IF RaiseForStatus(up) THEN Raised("HTTPError") ELSE
    ResponseJson(up, caught)

\* except requests.exceptions.RequestException as e (lines 52-56, 87-91):
\* every other exception leaves the function
Except(city, outcome, up) ==
    IF outcome.kind = "raise" /\ outcome.exc \in RequestExceptions
    THEN Returned(NotAvailable(city, ExcText(outcome.exc, up)))
    ELSE outcome

\* `if api_key is None`
KeyMissingOnlyNone(key) == key = PyNone
\* `if not api_key` (lines 22, 70)
KeyMissing(key) == ~Truthy(key)

\* get_weather(city) run alone, with the key of the environment and the
\* upstream behaving as `up`
get_weather(city, key, up, caught) ==
    IF KeyMissing(key) THEN Returned(KeyNotConfigured)
    ELSE IF up.net # "ok" THEN Except(city, Raised(up.net), up)
    ELSE Except(city, WeatherTry(city, up, caught), up)

\* get_forcast(city, days) run alone
get_forcast(city, days, key, up, caught) ==
    IF KeyMissing(key) THEN Returned(KeyNotConfigured)
    ELSE IF up.net # "ok" THEN Except(city, Raised(up.net), up)
    ELSE Except(city, ForcastTry(city, up, caught), up)

\* get_current_time(city), the clock reading `stamp`
get_current_time(city, stamp) ==
    IF StrLower(city) = NewYork
    THEN Returned(PyDict([status |-> Text("success"), report |-> PyStr(TimeReport(city, stamp))]))
    ELSE Returned(PyDict([status |-> Text("error"),
                          error_message |-> PyStr(NoTimezoneMessage(city))]))

----------------------------------------------------------------------------
(* Inputs: the cities the runtime passes, the keys of the environment, the *)
(* clock, and what the upstream may answer to a request.                   *)

Paris == <<"P","a","r","i","s">>
Cities ==
    { NewYork,
      <<"N","e","w"," ","Y","o","r","k">>,
      <<"N","E","W"," ","Y","O","R","K">>,
      <<"n","E","w"," ","y","O","r","K">>,
      <<"n","e","w"," ","y","o","r",KelvinSign>>,
      <<"n","e","w","y","o","r","k">>,
      <<"n","e","w"," "," ","y","o","r","k">>,
      <<"n","e","w"," ","y","o","r","k"," ">>,
      <<"N","e","w"," ","Y","o","r","k"," ","C","i","t","y">>,
      Paris,
      <<"p","a","r","i","s">> }

\* get_weather and get_forcast take a non-empty city; get_current_time is
\* also given the empty string
TimeCities == Cities \cup {<<>>}

\* the cities used when several threads run
FewCities == {Paris, <<"N","e","w"," ","Y","o","r","k">>}

\* os.getenv("WEATHERAPI_KEY"): unset, set to the empty string, set
ApiKeys == {PyNone, PyStr(<<>>), PyStr(<<"k","e","y">>)}

\* days: int = 7
DefaultDays == 7
Days == (1..MaxDays) \cup {DefaultDays}

\* now.strftime('%Y-%m-%d %H:%M:%S %Z%z') in America/New_York
Stamps == {<<"2026-01-15 09:30:00 EST-0500">>, <<"2026-07-15 09:30:00 EDT-0400">>}

Float(milli) == PyFloat("finite", FALSE, milli)

\* decimal literals around the values where '.1f' changes its digit
ProbeMillis == {9949, 9950, 9951, 9999, 21200, 21249, 21250, 21350, 70200, 99950}
IntTemps == {PyInt(n) : n \in {-5, 0, 21, 100}}
FloatTemps == {PyFloat("finite", neg, m) : neg \in BOOLEAN, m \in (0..MaxMilli) \cup ProbeMillis}
\* 1e400 and -1e400 decode to inf and -inf, NaN to nan
SpecialTemps == {PyFloat("inf", FALSE, 0), PyFloat("inf", TRUE, 0), PyFloat("nan", FALSE, 0)}
NonNumericTemps == {PyStr(<<"2","1">>), PyNone}
AllTemps == IntTemps \cup FloatTemps \cup SpecialTemps \cup NonNumericTemps

Sunny == PyStr(<<"S","u","n","n","y">>)
Conditions == {Sunny, PyStr(<<"P","a","r","t","l","y"," ","c","l","o","u","d","y">>),
               PyStr(<<"m","i","s","t">>), PyNone}

\* a current.json body with every field get_weather reads
CurrentBody(tc, tf, text) ==
    PyDict([location |-> PyDict([name |-> PyStr(Paris)]),
            current |-> PyDict([temp_c |-> tc, temp_f |-> tf,
                                condition |-> PyDict([text |-> text])])])

GoodBody == CurrentBody(Float(21200), Float(70200), Sunny)

\* bodies that decode but lack something get_weather reads
PartialBodies ==
    { PyList, EmptyDict,
      PyDict([error |-> PyDict([code |-> PyInt(1006)])]),
      PyDict([current |-> PyNone]),
      PyDict([current |-> EmptyDict]),
      PyDict([current |-> PyDict([temp_c |-> Float(21200)])]),
      PyDict([current |-> PyDict([temp_c |-> Float(21200), temp_f |-> Float(70200)])]),
      PyDict([current |-> PyDict([temp_c |-> Float(21200), temp_f |-> Float(70200),
                                  condition |-> EmptyDict])]) }

\* the temperatures of the answer: every value for the probed city (one
\* field at a time), a few for the others
TempPairs(q) ==
    IF q = Paris
    THEN (AllTemps \X {Float(70200)}) \cup ({Float(21200)} \X AllTemps)
    ELSE {<<Float(21200), Float(70200)>>, <<PyInt(21), PyInt(70)>>,
          <<PyFloat("nan", FALSE, 0), PyNone>>}

CurrentBodies(q) ==
    PartialBodies
    \cup {CurrentBody(p[1], p[2], Sunny) : p \in TempPairs(q)}
    \cup {CurrentBody(Float(21200), Float(70200), text) : text \in Conditions}

\* a forecast.json body for `days` days
ForecastBody(days) ==
    PyDict([location |-> PyDict([name |-> PyStr(Paris)]),
            forecast |-> PyDict([forecastday |-> PyList, days |-> PyInt(days)])])

ForecastBodies(days) ==
    { ForecastBody(days), PyList, EmptyDict,
      PyDict([status |-> Text("success"), forecast |-> PyList]),
      PyDict([status |-> PyInt(200)]) }

NetworkFailures == {NetworkFailure("ConnectionError"), NetworkFailure("Timeout")}

\* what requests.get(base_url, params) may end in
Upstream(endpoint, q, days) ==
    LET bodies == IF endpoint = "current.json" THEN CurrentBodies(q) ELSE ForecastBodies(days)
        good == IF endpoint = "current.json" THEN GoodBody ELSE ForecastBody(days)
    IN  NetworkFailures
        \cup {Response(code, Malformed) : code \in {200, 204, 400, 404, 500, 503}}
        \cup {Response(code, good) : code \in {201, 304, 403, 500}}
        \cup {Response(200, b) : b \in bodies}

\* the answers used when several threads run
FewUpstream(endpoint, q, days) ==
    { NetworkFailure("Timeout"), Response(500, Malformed), Response(200, EmptyDict),
      Response(200, IF endpoint = "current.json" THEN GoodBody ELSE ForecastBody(days)) }

----------------------------------------------------------------------------
(* Frames: one invocation at a time per thread. *)

NoResponse == [net |-> "none", code |-> 0, body |-> Malformed]
Pending == [kind |-> "pending", value |-> PyNone, exc |-> "-"]

\* a thread that is not inside a tool
Idle == [pc |-> "idle", op |-> "-", city |-> <<>>, days |-> 0, api_key |-> PyNone,
         upstream |-> NoResponse, result |-> Pending, calls |-> 0]

\* the frame on entry: the arguments are bound, nothing has run
Entered(op, city, days) == [Idle EXCEPT !.pc = "entry", !.op = op, !.city = city, !.days = days]

Endpoint(op) == IF op = "get_weather" THEN "current.json" ELSE "forecast.json"

\* arguments kept in a module-level global: entering a tool rewrites the
\* city of the invocations still in flight
ReadKeyGlobalArgs(i, op, city, days) ==
    /\ frame[i].pc = "idle"
    /\ frame' = [j \in Threads |->
                    IF j = i
                    THEN IF KeyMissing(apiKey)
                         THEN [Entered(op, city, days) EXCEPT !.pc = "done", !.api_key = apiKey,
                                                              !.result = Returned(KeyNotConfigured)]
                         ELSE [Entered(op, city, days) EXCEPT !.pc = "request", !.api_key = apiKey]
                    ELSE IF frame[j].pc \in {"request", "response"}
                         THEN [frame[j] EXCEPT !.city = city]
                         ELSE frame[j]]
    /\ UNCHANGED <<apiKey, jsonErrCaught>>
\* lines 21-23 and 69-71: read the key, return at once without one
ReadKey(i, op, city, days) ==
    /\ frame[i].pc = "idle"
    /\ frame' = [frame EXCEPT ![i] =
                    IF KeyMissing(apiKey)
                    THEN [Entered(op, city, days) EXCEPT !.pc = "done", !.api_key = apiKey,
                                                         !.result = Returned(KeyNotConfigured)]
                    ELSE [Entered(op, city, days) EXCEPT !.pc = "request", !.api_key = apiKey]]
    /\ UNCHANGED <<apiKey, jsonErrCaught>>

GetWeatherEnter(i, city) == ReadKey(i, "get_weather", city, 0)
GetForcastEnter(i, city, days) == ReadKey(i, "get_forcast", city, days)

\* a requests.get that is tried again after a network failure
RequestRetrying(i, up) ==
    /\ frame[i].pc = "request"
    /\ frame' = [frame EXCEPT ![i] =
                    IF up.net # "ok"
                    THEN [@ EXCEPT !.calls = @ + 1, !.upstream = up]
                    ELSE [@ EXCEPT !.pc = "response", !.calls = @ + 1, !.upstream = up]]
    /\ UNCHANGED <<apiKey, jsonErrCaught>>
\* lines 33 and 82: the one requests.get of the invocation, which raises on
\* a network failure (caught by the except clause) or yields a response
Request(i, up) ==
    /\ frame[i].pc = "request"
    /\ frame' = [frame EXCEPT ![i] =
                    IF up.net # "ok"
                    THEN [@ EXCEPT !.pc = "done", !.calls = @ + 1, !.upstream = up,
                                   !.result = Except(frame[i].city, Raised(up.net), up)]
                    ELSE [@ EXCEPT !.pc = "response", !.calls = @ + 1, !.upstream = up]]
    /\ UNCHANGED <<apiKey, jsonErrCaught>>

\* lines 34-56: get_weather from the response to its return (or raise)
GetWeatherFinish(i) ==
    /\ frame[i].pc = "response"
    /\ frame[i].op = "get_weather"
    /\ frame' = [frame EXCEPT ![i] =
                    [@ EXCEPT !.pc = "done",
                              !.result = Except(frame[i].city,
                                                WeatherTry(frame[i].city, frame[i].upstream, jsonErrCaught),
                                                frame[i].upstream)]]
    /\ UNCHANGED <<apiKey, jsonErrCaught>>

\* lines 83-91: get_forcast from the response to its return (or raise)
GetForcastFinish(i) ==
    /\ frame[i].pc = "response"
    /\ frame[i].op = "get_forcast"
    /\ frame' = [frame EXCEPT ![i] =
                    [@ EXCEPT !.pc = "done",
                              !.result = Except(frame[i].city,
                                                ForcastTry(frame[i].city, frame[i].upstream, jsonErrCaught),
                                                frame[i].upstream)]]
    /\ UNCHANGED <<apiKey, jsonErrCaught>>

\* lines 104-115: get_current_time, which blocks nowhere
GetCurrentTime(i, city, stamp) ==
    /\ frame[i].pc = "idle"
    /\ frame' = [frame EXCEPT ![i] =
                    [Entered("get_current_time", city, 0) EXCEPT
                        !.pc = "done", !.result = get_current_time(city, stamp)]]
    /\ UNCHANGED <<apiKey, jsonErrCaught>>

\* the runtime takes the result (or the exception); the frame is gone
Leave(i) ==
    /\ frame[i].pc = "done"
    /\ frame' = [frame EXCEPT ![i] = Idle]
    /\ UNCHANGED <<apiKey, jsonErrCaught>>

----------------------------------------------------------------------------
(* Specifications. *)

\* load_dotenv() has run; no tool has been called
Init ==
    /\ apiKey \in ApiKeys
    /\ jsonErrCaught \in BOOLEAN
    /\ frame = [i \in Threads |-> Idle]

\* the runtime invokes the tools one after the other
Next ==
    \/ \E city \in Cities : GetWeatherEnter(Main, city)
    \/ \E city \in Cities, days \in Days : GetForcastEnter(Main, city, days)
    \/ \E up \in Upstream(Endpoint(frame[Main].op), frame[Main].city, frame[Main].days) :
          Request(Main, up)
    \/ GetWeatherFinish(Main)
    \/ GetForcastFinish(Main)
    \/ \E city \in TimeCities, stamp \in Stamps : GetCurrentTime(Main, city, stamp)
    \/ Leave(Main)

Spec == Init /\ [][Next]_vars

\* the runtime invokes the tools from several threads
NextThreads ==
    \E i \in Threads :
        \/ \E city \in FewCities : GetWeatherEnter(i, city)
        \/ \E city \in FewCities : GetForcastEnter(i, city, DefaultDays)
        \/ \E up \in FewUpstream(Endpoint(frame[i].op), frame[i].city, frame[i].days) :
              Request(i, up)
        \/ GetWeatherFinish(i)
        \/ GetForcastFinish(i)
        \/ \E city \in FewCities, stamp \in Stamps : GetCurrentTime(i, city, stamp)
        \/ Leave(i)

SpecThreads == Init /\ [][NextThreads]_vars

----------------------------------------------------------------------------
(* Vocabulary of the properties. *)

\* whether t occurs in s as a contiguous substring
Contains(s, t) ==
    \E k \in 0..(Len(s) - Len(t)) : \A j \in 1..Len(t) : s[k + j] = t[j]

Digits == {Digit(d) : d \in 0..9}

Weather(i) == frame[i].op = "get_weather"
Forcast(i) == frame[i].op = "get_forcast"
Time(i) == frame[i].op = "get_current_time"
Done(i) == frame[i].pc = "done"
Value(i) == frame[i].result.value

IsText(x, lit) == x.tag = "str" /\ x.v = <<lit>>

\* a mapping with a status that is "success" or "error"
IsEnvelope(v) ==
    /\ v.tag = "dict"
    /\ "status" \in DOMAIN v.v
    /\ IsText(v.v.status, "success") \/ IsText(v.v.status, "error")

\* {status: "error", error_message: <a string>} and nothing else
IsErrorEnvelope(v) ==
    /\ v.tag = "dict"
    /\ DOMAIN v.v = {"status", "error_message"}
    /\ IsText(v.v.status, "error")
    /\ v.v.error_message.tag = "str"

ReturnedError(i) == frame[i].result.kind = "return" /\ IsErrorEnvelope(Value(i))

NotConfigured(key) == key = PyNone \/ key = PyStr(<<>>)

SameIgnoringCase(a, b) ==
    /\ Len(a) = Len(b)
    /\ \A k \in 1..Len(a) : LowerChar(a[k]) = LowerChar(b[k])

Is2xx(up) == up.net = "ok" /\ 200 <= up.code /\ up.code < 300
NetworkFailed(up) == up.net \notin {"ok", "none"}
Is4xx5xx(up) == up.net = "ok" /\ 400 <= up.code /\ up.code < 600

\* the text of the failure of the call that ended in `up`
FailureDescription(up) == IF up.net = "ok" THEN ExcText("HTTPError", up) ELSE <<up.net>>

\* the error envelope names the city and the failure
ErrorNaming(i) ==
    /\ ReturnedError(i)
    /\ Contains(Value(i).v.error_message.v, frame[i].city)
    /\ Contains(Value(i).v.error_message.v, FailureDescription(frame[i].upstream))

IsNumber(x) == x.tag \in {"int", "float"}
IsFinite(x) == x.tag = "int" \/ (x.tag = "float" /\ x.cls = "finite")

\* a decoded body with current.temp_c, current.temp_f numeric and
\* current.condition.text a string
WellFormed(b) ==
    /\ b.tag = "dict" /\ "current" \in DOMAIN b.v
    /\ b.v.current.tag = "dict" /\ {"temp_c", "temp_f", "condition"} \subseteq DOMAIN b.v.current.v
    /\ IsNumber(b.v.current.v.temp_c) /\ IsNumber(b.v.current.v.temp_f)
    /\ b.v.current.v.condition.tag = "dict" /\ "text" \in DOMAIN b.v.current.v.condition.v
    /\ b.v.current.v.condition.v.text.tag = "str"

Current(i) == frame[i].upstream.body.v.current.v

\* digits, one point, one digit
OneDecimal(s) ==
    /\ Len(s) >= 3
    /\ s[Len(s)] \in Digits
    /\ s[Len(s) - 1] = "."
    /\ s[Len(s) - 2] \in Digits
    /\ \A k \in 1..(Len(s) - 2) : s[k] # "."

WeatherSucceeded(i) ==
    /\ Weather(i) /\ Done(i) /\ frame[i].result.kind = "return"
    /\ IsText(Value(i).v.status, "success")

----------------------------------------------------------------------------
(* The properties. *)

\* C1: no invocation of the three functions ends in an exception that
\* leaves the function, whatever the key and the upstream answer.
C1_NeverRaises == \A i \in Threads : frame[i].result.kind # "raise"

\* C2: whatever an invocation returns, on any path of any of the three
\* functions, is an envelope whose status is "success" or "error".
C2_StatusAlwaysPresent ==
    \A i \in Threads : frame[i].result.kind = "return" => IsEnvelope(Value(i))

\* C3: without a configured key, get_weather and get_forcast return an error
\* envelope and the invocation makes no HTTP call, for every city and days.
C3_NoKeyNoCall ==
    \A i \in Threads :
        (Weather(i) \/ Forcast(i)) /\ NotConfigured(apiKey)
            => Done(i) /\ frame[i].calls = 0 /\ ReturnedError(i)

C3_Witness ==
    \E i \in Threads :
        /\ Forcast(i) /\ Done(i) /\ apiKey = PyStr(<<>>)
        /\ frame[i].days # DefaultDays /\ frame[i].city = Paris

\* C4: get_current_time succeeds exactly for the cities equal to "new york"
\* up to case; for any other city it returns an error whose message holds
\* the city as it was passed.
C4_TimeSuccessIffNewYork ==
    \A i \in Threads :
        Time(i) /\ Done(i) =>
            /\ frame[i].result.kind = "return"
            /\ IsEnvelope(Value(i))
            /\ IsText(Value(i).v.status, "success") <=> SameIgnoringCase(frame[i].city, NewYork)
            /\ ~SameIgnoringCase(frame[i].city, NewYork) =>
                    /\ IsErrorEnvelope(Value(i))
                    /\ Contains(Value(i).v.error_message.v, frame[i].city)

C4_Witness ==
    \E i \in Threads :
        /\ Time(i) /\ Done(i)
        /\ frame[i].city = <<"n","E","w"," ","y","O","r","K">>
        /\ IsText(Value(i).v.status, "success")

\* C5 as stated: with a key, a network failure or any status outside 2xx
\* makes get_weather and get_forcast return an error envelope that names
\* the city and the failure.
C5_Non2xxIsError ==
    \A i \in Threads :
        /\ Weather(i) \/ Forcast(i)
        /\ Done(i)
        /\ NetworkFailed(frame[i].upstream) \/ (frame[i].upstream.net = "ok" /\ ~Is2xx(frame[i].upstream))
        => ErrorNaming(i)

\* C5 amended: with a key, a network failure or a 4xx or 5xx status makes
\* get_weather and get_forcast return an error envelope (status and
\* error_message only) whose message holds the city and the failure text.
C5_FailureIsError ==
    \A i \in Threads :
        /\ Weather(i) \/ Forcast(i)
        /\ Done(i)
        /\ NetworkFailed(frame[i].upstream) \/ Is4xx5xx(frame[i].upstream)
        => ErrorNaming(i)

C5_Witness ==
    \E i \in Threads :
        /\ Forcast(i) /\ Done(i) /\ frame[i].upstream.code = 503
        /\ frame[i].city = <<"p","a","r","i","s">>
        /\ ErrorNaming(i)

\* C6: with a key and a well-formed 2xx answer, get_weather returns exactly
\* status "success", the lower-cased condition text, the two temperatures
\* formatted, and the city as the caller passed it.
C6_WeatherSuccessEnvelope ==
    \A i \in Threads :
        Weather(i) /\ Done(i) /\ Is2xx(frame[i].upstream) /\ WellFormed(frame[i].upstream.body)
        => frame[i].result =
              Returned(PyDict([status |-> Text("success"),
                               condition |-> PyStr(StrLower(Current(i).condition.v.text.v)),
                               temperature_c |-> Format1f(Current(i).temp_c).value,
                               temperature_f |-> Format1f(Current(i).temp_f).value,
                               city_name |-> PyStr(frame[i].city)]))

\* temp_c=21.2, temp_f=70.2, "Sunny", asked for "paris"
C6_Witness ==
    \E i \in Threads :
        /\ Weather(i) /\ Done(i) /\ frame[i].upstream = Response(200, GoodBody)
        /\ frame[i].city = <<"p","a","r","i","s">>
        /\ Value(i) = PyDict([status |-> Text("success"),
                              condition |-> PyStr(<<"s","u","n","n","y">>),
                              temperature_c |-> PyStr(<<"2","1",".","2">>),
                              temperature_f |-> PyStr(<<"7","0",".","2">>),
                              city_name |-> PyStr(<<"p","a","r","i","s">>)])

C8_AtMostOneCall ==
    \A i \in Threads :
        /\ frame[i].calls <= 1
        /\ Time(i) => frame[i].calls = 0
        /\ Done(i) /\ NetworkFailed(frame[i].upstream) => frame[i].calls = 1

C8_Witness ==
    \E i \in Threads :
        /\ Weather(i) /\ Done(i) /\ frame[i].upstream = NetworkFailure("Timeout")
        /\ frame[i].calls = 1

\* what the invocation of frame f returns when it runs alone
Alone(f) ==
    CASE f.op = "get_weather" -> {get_weather(f.city, apiKey, f.upstream, jsonErrCaught)}
      [] f.op = "get_forcast" -> {get_forcast(f.city, f.days, apiKey, f.upstream, jsonErrCaught)}
      [] OTHER -> {get_current_time(f.city, stamp) : stamp \in Stamps}

\* C9: under any interleaving of invocations on several threads, no step
\* writes the key or the frame of another thread, and each finished
\* invocation holds the result it produces when run alone.
C9_ThreadsIsolated ==
    [][ /\ apiKey' = apiKey
        /\ \A i, j \in Threads : frame'[i] # frame[i] /\ j # i => frame'[j] = frame[j]
        /\ \A i \in Threads : frame'[i].pc = "done" => frame'[i].result \in Alone(frame'[i])
      ]_vars

C9_Witness ==
    \E i, j \in Threads :
        /\ i # j
        /\ Weather(i) /\ frame[i].pc = "response" /\ frame[i].city = Paris
        /\ Forcast(j) /\ Done(j) /\ frame[j].city # Paris
        /\ frame[j].upstream = NetworkFailure("Timeout")

\* C10 as stated: for every numeric temperature of the answer, the
\* temperature strings of the success envelope have exactly one digit
\* after the decimal point.
C10_OneDecimalEveryNumber ==
    \A i \in Threads :
        WeatherSucceeded(i) =>
            /\ OneDecimal(Value(i).v.temperature_c.v)
            /\ OneDecimal(Value(i).v.temperature_f.v)

\* C10 amended: for every finite numeric temperature of the answer (an
\* integer or a finite float of any precision), the temperature string of
\* the success envelope has exactly one digit after the decimal point:
\* 21 gives "21.0" and 21.249 gives "21.2".
C10_OneDecimalFiniteNumber ==
    \A i \in Threads :
        WeatherSucceeded(i) =>
            /\ IsFinite(Current(i).temp_c) => OneDecimal(Value(i).v.temperature_c.v)
            /\ IsFinite(Current(i).temp_f) => OneDecimal(Value(i).v.temperature_f.v)
            /\ Current(i).temp_c = PyInt(21) => Value(i).v.temperature_c.v = <<"2","1",".","0">>
            /\ Current(i).temp_f = Float(21249) => Value(i).v.temperature_f.v = <<"2","1",".","2">>

C10_Witness ==
    \E i \in Threads :
        /\ WeatherSucceeded(i)
        /\ Current(i).temp_c = Float(21249)
        /\ Value(i).v.temperature_c.v = <<"2","1",".","2">>

====
